---- MODULE Spec2Model ----
(***************************************************************************)
(* Model of the convoy-go webhook client (src/convoy.go).                  *)
(*                                                                         *)
(* One client instance (webhookData: url, key) is shared by the caller     *)
(* goroutines of Callers.  Each goroutine runs one operation at a time;    *)
(* the operations of different goroutines interleave step by step.  The    *)
(* heap holds the Webhook values the callers pass to CreateEvent; a        *)
(* request's header map is either the request's own map or, in             *)
(* CreateEvent, the caller's Headers map itself (line 391 assigns the map, *)
(* it does not copy it).                                                   *)
(***************************************************************************)
EXTENDS Integers, Sequences, FiniteSets, TLC

\* ------------------------------------------------------------------ bounds

\* Largest number of redirects the server answers in one client.Do
\* (below net/http's own limit of 10, so that limit is never reached).
MaxRedirects == 1

\* ------------------------------------------------------------- value sets

Callers == {"g1", "g2"}

Nil == "nil"

Ops == {"GetEndpointEventDeliveries", "TogglePause", "CreateEndpoint",
        "UpdateEndpoint", "DeleteEndpoint", "GetEndpoint", "CreateEvent"}

\* Response statuses the server answers with: both sides of every threshold
\* the code compares against (200, 300, 400); 300 is also a status below 400.
StatusCodes == {200, 201, 300, 400, 401}

\* Project identifiers: "%zz" is an invalid URL escape, url.Parse rejects it.
ProjectIDs == {"p1", "%zz"}

EndpointID == "e1"

\* Header map keys as Go stores them: map keys are case sensitive.
HeaderKeys == {"Authorization", "Content-Type", "X-Trace",
               "authorization", "content-type"}

\* The order in which http.Header.Write emits keys (sorted by byte value).
KeyOrder == <<"Authorization", "Content-Type", "X-Trace",
              "authorization", "content-type">>

\* A header map: key -> sequence of values, <<>> for an absent key.
EmptyMap == [k \in HeaderKeys |-> <<>>]

\* A Headers field: a nil map, or a map with its entries.
NilHeader == [isNil |-> TRUE, m |-> EmptyMap]

MakeHeader(m) == [isNil |-> FALSE, m |-> m]

CanonMap ==
  [EmptyMap EXCEPT !["Authorization"] = <<"Basic evil">>,
                      !["Content-Type"] = <<"text/plain">>,
                      !["X-Trace"] = <<"t1">>]

LowerMap ==
  [EmptyMap EXCEPT !["authorization"] = <<"Basic evil">>,
                      !["content-type"] = <<"text/plain">>]

\* The Headers field a caller may have put in a Webhook.
HeaderChoices ==
  {NilHeader, MakeHeader(EmptyMap), MakeHeader(CanonMap), MakeHeader(LowerMap)}

\* Webhook values on the heap.  w1 carries a JSON-encodable payload; w2
\* carries a payload json.Marshal rejects (a channel) and nil Headers.
Webhooks == {"w1", "w2"}

\* ------------------------------------------------------------------ state

VARIABLES
  we,        \* the client: [url, key], set by NewWebhook
  Headers,   \* heap: Webhook -> its Headers map (or Nil)
  Data,      \* heap: Webhook -> its Data payload
  call,      \* Callers -> the goroutine's current call
  crashed    \* the Go runtime aborted the process (fatal error)

vars == <<we, Headers, Data, call, crashed>>

IdleCall ==
  [op |-> "none", pc |-> "idle", wh |-> Nil, hdr |-> "none",
   own |-> EmptyMap, url |-> "", before |-> NilHeader, wire |-> <<>>,
   status |-> 0, reads |-> 0, readFailed |-> FALSE, closes |-> 0,
   closeLogged |-> FALSE, result |-> Nil, err |-> Nil]

\* NewWebhook(url, key, defaultProject): stores url and key only.
NewWebhook(url, key) == [url |-> url, key |-> key]

Init ==
  /\ we = NewWebhook("https://convoy.example", "secret123")
  /\ \E h \in HeaderChoices : Headers = [w \in Webhooks |-> IF w = "w1" THEN h ELSE NilHeader]
  /\ Data = [w \in Webhooks |-> IF w = "w1" THEN "payload" ELSE "chan"]
  /\ call = [c \in Callers |-> IdleCall]
  /\ crashed = FALSE

\* ---------------------------------------------------------------- helpers

\* textproto.CanonicalMIMEHeaderKey on the keys of HeaderKeys.
CanonicalHeaderKey(k) ==
  CASE k = "authorization" -> "Authorization"
    [] k = "content-type" -> "Content-Type"
    [] OTHER -> k

\* http.Header.Set: canonicalises the key and replaces its values.
HeaderSet(h, k, v) == [h EXCEPT ![CanonicalHeaderKey(k)] = <<v>>]

\* The values a request carries on the wire for header name n, compared as
\* an HTTP header name (case-insensitively), in emission order.
RECURSIVE WireFrom(_, _, _)
WireFrom(h, n, i) ==
  IF i > Len(KeyOrder) THEN <<>>
  ELSE (IF CanonicalHeaderKey(KeyOrder[i]) = n THEN h[KeyOrder[i]] ELSE <<>>)
       \o WireFrom(h, n, i + 1)

WireValues(h, n) == WireFrom(h, n, 1)

\* fmt.Sprint("Bearer ", we.key)
Bearer(key) == "Bearer " \o key

\* url.Parse inside http.NewRequest: fails on an invalid escape.
ParseOK(projectID) == projectID # "%zz"

\* json.Marshal(webhookData.Data): fails on an unsupported value.
MarshalOK(d) == d # "chan"

\* The header map request c uses: its own, or the caller's map on the heap.
ReqHeader(c) ==
  IF call[c].hdr = "own" THEN call[c].own ELSE Headers[call[c].hdr].m

\* fmt.Sprint(we.url, "/api/v1/projects/", projectID, ...)
Target(projectID, rest) == we.url \o "/api/v1/projects/" \o projectID \o rest

\* A call that has returned (result, err).
Ret(r, result, err) == [r EXCEPT !.pc = "done", !.result = result, !.err = err]

\* fmt.Errorf("response code %d invalid", resp.StatusCode)
StatusError(s) == "response code " \o ToString(s) \o " invalid"

\* Mutant of DeferredClose: a failed close replaces the call's error.
DeferredClose_Escalates(r, closeOK) ==
  [r EXCEPT !.closes = @ + 1, !.closeLogged = ~closeOK,
            !.err = IF closeOK THEN @ ELSE "close"]

\* The deferred func(Body io.ReadCloser): closes the body once; a close
\* error is logged with slog.Error and goes nowhere else.
DeferredClose(r, closeOK) ==
  [r EXCEPT !.closes = @ + 1, !.closeLogged = ~closeOK]

\* ------------------------------------------- request construction, per op

\* http.NewRequest and req.Header.Set of an operation that builds its own
\* header map.  NewRequest fails when the target does not parse.
NewRequest(c, op, projectID, rest, contentType) ==
  /\ ~crashed
  /\ call[c].pc = "idle"
  /\ call' = [call EXCEPT ![c] =
       IF ~ParseOK(projectID)
       THEN Ret([IdleCall EXCEPT !.op = op], Nil, "request")
       ELSE [IdleCall EXCEPT
               !.op = op, !.pc = "built", !.hdr = "own",
               !.url = Target(projectID, rest),
               !.own = IF contentType
                       THEN HeaderSet(HeaderSet(EmptyMap, "Authorization", Bearer(we.key)),
                                      "Content-Type", "application/json")
                       ELSE HeaderSet(EmptyMap, "Authorization", Bearer(we.key))]]
  /\ UNCHANGED <<we, Headers, Data, crashed>>

GetEndpointEventDeliveries_Request(c) ==
  \E projectID \in ProjectIDs :
    NewRequest(c, "GetEndpointEventDeliveries", projectID, "/eventdeliveries", FALSE)

TogglePause_Request(c) ==
  \E projectID \in ProjectIDs :
    NewRequest(c, "TogglePause", projectID,
               "/endpoints/" \o EndpointID \o "/pause", FALSE)

\* json.NewEncoder(buff).Encode(params) cannot fail: UpsertEndpointParams
\* holds strings, integers and booleans only.
CreateEndpoint_Request(c) ==
  \E projectID \in ProjectIDs :
    NewRequest(c, "CreateEndpoint", projectID, "/endpoints", TRUE)

UpdateEndpoint_Request(c) ==
  \E projectID \in ProjectIDs :
    NewRequest(c, "UpdateEndpoint", projectID, "/endpoints/" \o EndpointID, TRUE)

DeleteEndpoint_Request(c) ==
  \E projectID \in ProjectIDs :
    NewRequest(c, "DeleteEndpoint", projectID, "/endpoints/" \o EndpointID, FALSE)

GetEndpoint_Request(c) ==
  \E projectID \in ProjectIDs :
    NewRequest(c, "GetEndpoint", projectID, "/endpoints/" \o EndpointID, FALSE)

\* Mutant of CreateEvent_Undefined: the nil check is missing.
CreateEvent_Undefined_Skipped(wh) == FALSE

\* CreateEvent's precondition: if webhookData == nil.
CreateEvent_Undefined(wh) == wh = Nil

\* CreateEvent up to the header assignment: the nil check, json.Marshal of
\* Data, http.NewRequest, and req.Header = webhookData.Headers when that map
\* is not nil.  The assignment shares the caller's map with the request.
\* Dereferencing a nil webhookData panics.
CreateEvent_Request(c) ==
  /\ ~crashed
  /\ call[c].pc = "idle"
  /\ \E projectID \in ProjectIDs, wh \in Webhooks \cup {Nil} :
       LET r == [IdleCall EXCEPT !.op = "CreateEvent", !.wh = wh,
                                 !.before = IF wh = Nil THEN NilHeader ELSE Headers[wh]] IN
       IF CreateEvent_Undefined(wh)
       THEN /\ call' = [call EXCEPT ![c] = Ret(r, Nil, "webhook data undefined")]
            /\ crashed' = FALSE
       ELSE IF wh = Nil
       THEN /\ call' = [call EXCEPT ![c] = r]
            /\ crashed' = TRUE
       ELSE /\ crashed' = FALSE
            /\ call' = [call EXCEPT ![c] =
                 IF ~MarshalOK(Data[wh]) THEN Ret(r, Nil, "marshal")
                 ELSE IF ~ParseOK(projectID) THEN Ret(r, Nil, "request")
                 ELSE [r EXCEPT !.pc = "setAuthorization",
                                !.url = Target(projectID, "/events"),
                                !.hdr = IF Headers[wh].isNil THEN "own" ELSE wh]]
  /\ UNCHANGED <<we, Headers, Data>>

\* ------------------------------------------------------ shared header map

\* The access to a shared (heap) header map that c's next step makes.
Writes(c) == call[c].pc \in {"setAuthorization", "setContentType"}

Reads(c) == call[c].pc = "built"

\* c's next step races with the next step of another goroutine: both touch
\* the same heap map, unsynchronised, and one of the two writes it.
RacesWith(c, d) ==
  /\ c # d
  /\ call[c].hdr \in Webhooks
  /\ call[d].hdr = call[c].hdr
  /\ \/ Writes(c) /\ (Writes(d) \/ Reads(d))
     \/ Reads(c) /\ Writes(d)

Racing(c) == \E d \in Callers : RacesWith(c, d)

\* A racing map access may be caught by the runtime ("fatal error:
\* concurrent map writes", "concurrent map read and map write"), which ends
\* the process, or go through.
RaceOutcome(c) == IF Racing(c) THEN {TRUE, FALSE} ELSE {FALSE}

\* req.Header.Set(key, value) on the map the request uses.
SetHeader(c, key, value, next) ==
  /\ ~crashed
  /\ crashed' \in RaceOutcome(c)
  /\ IF call[c].hdr = "own"
     THEN /\ call' = [call EXCEPT ![c].own = HeaderSet(@, key, value), ![c].pc = next]
          /\ UNCHANGED Headers
     ELSE /\ call' = [call EXCEPT ![c].pc = next]
          /\ Headers' = [Headers EXCEPT ![call[c].hdr].m = HeaderSet(@, key, value)]
  /\ UNCHANGED <<we, Data>>

CreateEvent_SetAuthorization(c) ==
  /\ call[c].pc = "setAuthorization"
  /\ SetHeader(c, "Authorization", Bearer(we.key), "setContentType")

CreateEvent_SetContentType(c) ==
  /\ call[c].pc = "setContentType"
  /\ SetHeader(c, "Content-Type", "application/json", "built")

\* ------------------------------------------------------------- client.Do

\* The requests one client.Do puts on the wire: the request itself, then one
\* follow-up per redirect, each with a copy of the first request's headers
\* (a redirect to the same host; what the policy drops on a redirect to
\* another host is left out).
RECURSIVE Sent(_, _)
Sent(h, hops) ==
  IF hops = 0 THEN <<h>> ELSE Append(Sent(h, hops - 1), h)

\* client.Do(req) on a client built with no CheckRedirect: the transport
\* sends the request, follows the redirects the server answers with (the
\* default policy), and hands back the last response, or an error (network
\* failure, timeout) and no response.  Sending reads the request's header map.
ClientDo(c) ==
  /\ ~crashed
  /\ call[c].pc = "built"
  /\ crashed' \in RaceOutcome(c)
  /\ \E hops \in 0..MaxRedirects, ok \in BOOLEAN, s \in StatusCodes :
       /\ ~ok => s = 200
       /\ LET r == [call[c] EXCEPT !.wire = Sent(ReqHeader(c), hops)] IN
          call' = [call EXCEPT ![c] =
            IF ok THEN [r EXCEPT !.pc = "responded", !.status = s]
            ELSE Ret(r, call[c].result, "transport")]
  /\ UNCHANGED <<we, Headers, Data>>

\* ---------------------------------------------- status check, per operation

GetEndpointEventDeliveries_Invalid(s) == s # 200

TogglePause_Invalid(s) == s >= 300

\* Mutant of CreateEndpoint_Invalid: 400 itself is an error.
CreateEndpoint_Invalid_From400(s) == s >= 400

CreateEndpoint_Invalid(s) == s > 400

UpdateEndpoint_Invalid(s) == s > 400

DeleteEndpoint_Invalid(s) == s >= 300

\* Mutant of GetEndpoint_Invalid: the threshold of DeleteEndpoint.
GetEndpoint_Invalid_From300(s) == s >= 300

GetEndpoint_Invalid(s) == s # 200

CreateEvent_Invalid(s) == s >= 400

\* The zero value an operation returns next to an error.
NoResult(op) == IF op = "TogglePause" THEN "" ELSE Nil

\* json.NewDecoder(resp.Body).Decode(&v), then return: the decoded value,
\* or the decode error and no value.
DecodeBody(r, bodyOK, value) ==
  IF bodyOK THEN Ret(r, value, Nil) ELSE Ret(r, NoResult(r.op), "decode")

\* From the response to the return of an operation that decodes the body:
\* the status check, the decode, and the deferred close on the way out.
Respond(c, op, invalid, value) ==
  /\ ~crashed
  /\ call[c].op = op
  /\ call[c].pc = "responded"
  /\ \E bodyOK \in BOOLEAN, closeOK \in BOOLEAN :
       call' = [call EXCEPT ![c] =
         DeferredClose(
           IF invalid THEN Ret(@, NoResult(op), StatusError(@.status))
           ELSE DecodeBody(@, bodyOK, value),
           closeOK)]
  /\ UNCHANGED <<we, Headers, Data, crashed>>

GetEndpointEventDeliveries_Response(c) ==
  Respond(c, "GetEndpointEventDeliveries",
          GetEndpointEventDeliveries_Invalid(call[c].status), "delivery")

\* Returns endpoint.Data.Status of the decoded body.
TogglePause_Response(c) ==
  Respond(c, "TogglePause", TogglePause_Invalid(call[c].status), "active")

CreateEndpoint_Response(c) ==
  Respond(c, "CreateEndpoint", CreateEndpoint_Invalid(call[c].status), "response")

UpdateEndpoint_Response(c) ==
  Respond(c, "UpdateEndpoint", UpdateEndpoint_Invalid(call[c].status), "response")

DeleteEndpoint_Response(c) ==
  Respond(c, "DeleteEndpoint", DeleteEndpoint_Invalid(call[c].status), "endpoint")

GetEndpoint_Response(c) ==
  Respond(c, "GetEndpoint", GetEndpoint_Invalid(call[c].status), "endpoint")

\* io.ReadAll(resp.Body): one read of the whole body; its error is dropped
\* (on success the body is logged).
ReadAll(r, readOK) == [r EXCEPT !.reads = @ + 1, !.readFailed = ~readOK]

\* Mutant of CreateEvent_Return: a failed body read fails the call.
CreateEvent_Return_ReadChecked(r) ==
  IF r.readFailed THEN Ret(r, Nil, "read")
  ELSE IF r.status >= 400
  THEN Ret(r, Nil, "error status code " \o ToString(r.status))
  ELSE Ret(r, Nil, Nil)

\* errors.New("error status code " + strconv.FormatInt(status, 10)), or nil.
CreateEvent_Return(r) ==
  IF CreateEvent_Invalid(r.status)
  THEN Ret(r, Nil, "error status code " \o ToString(r.status))
  ELSE Ret(r, Nil, Nil)

\* CreateEvent from the response to the return: ReadAll, the status check,
\* and the deferred close on the way out.
CreateEvent_Response(c) ==
  /\ ~crashed
  /\ call[c].op = "CreateEvent"
  /\ call[c].pc = "responded"
  /\ \E readOK \in BOOLEAN, closeOK \in BOOLEAN :
       call' = [call EXCEPT ![c] =
         DeferredClose(CreateEvent_Return(ReadAll(@, readOK)), closeOK)]
  /\ UNCHANGED <<we, Headers, Data, crashed>>

\* The caller takes the outcome; the goroutine is free for its next call.
Return(c) ==
  /\ ~crashed
  /\ call[c].pc = "done"
  /\ call' = [call EXCEPT ![c] = IdleCall]
  /\ UNCHANGED <<we, Headers, Data, crashed>>

Next ==
  \E c \in Callers :
    \/ GetEndpointEventDeliveries_Request(c)
    \/ GetEndpointEventDeliveries_Response(c)
    \/ TogglePause_Request(c)
    \/ TogglePause_Response(c)
    \/ CreateEndpoint_Request(c)
    \/ CreateEndpoint_Response(c)
    \/ UpdateEndpoint_Request(c)
    \/ UpdateEndpoint_Response(c)
    \/ DeleteEndpoint_Request(c)
    \/ DeleteEndpoint_Response(c)
    \/ GetEndpoint_Request(c)
    \/ GetEndpoint_Response(c)
    \/ CreateEvent_Request(c)
    \/ CreateEvent_SetAuthorization(c)
    \/ CreateEvent_SetContentType(c)
    \/ CreateEvent_Response(c)
    \/ ClientDo(c)
    \/ Return(c)

Spec == Init /\ [][Next]_vars

\* ----------------------------------------------------------------- claims

\* A call that has returned after the transport handed it a response.
Answered(c) == call[c].pc = "done" /\ call[c].status # 0

\* The error CreateEvent returns for a status: it embeds the status code.
EventStatusError(s) == "error status code " \o ToString(s)

\* The status-code error of either form.
IsStatusError(c) ==
  call[c].err \in {StatusError(call[c].status), EventStatusError(call[c].status)}

\* C1 (as stated): GetEndpoint, GetEndpointEventDeliveries, DeleteEndpoint,
\* TogglePause and CreateEvent return a status-code error and no result for
\* every status >= 300, GetEndpoint and GetEndpointEventDeliveries for every
\* status other than 200.
C1_Original ==
  \A c \in Callers :
    /\ Answered(c)
    /\ \/ /\ call[c].op \in {"GetEndpoint", "GetEndpointEventDeliveries",
                             "DeleteEndpoint", "TogglePause", "CreateEvent"}
          /\ call[c].status >= 300
       \/ /\ call[c].op \in {"GetEndpoint", "GetEndpointEventDeliveries"}
          /\ call[c].status # 200
    => IsStatusError(c) /\ call[c].result = NoResult(call[c].op)

\* C1 (amended): GetEndpoint and GetEndpointEventDeliveries return a
\* status-code error and no result for every status other than 200,
\* DeleteEndpoint and TogglePause for every status >= 300, and CreateEvent
\* for every status >= 400; CreateEvent returns nil for a status from 300
\* to 399.
C1_StatusErrors ==
  \A c \in Callers :
    Answered(c) =>
      /\ /\ call[c].op \in {"GetEndpoint", "GetEndpointEventDeliveries"}
         /\ call[c].status # 200
         => call[c].err = StatusError(call[c].status) /\ call[c].result = Nil
      /\ /\ call[c].op \in {"DeleteEndpoint", "TogglePause"}
         /\ call[c].status >= 300
         => /\ call[c].err = StatusError(call[c].status)
            /\ call[c].result = NoResult(call[c].op)
      /\ call[c].op = "CreateEvent" /\ call[c].status >= 400
         => call[c].err = EventStatusError(call[c].status) /\ call[c].result = Nil
      /\ call[c].op = "CreateEvent" /\ call[c].status \in 300..399
         => call[c].err = Nil

C1_Witness ==
  \E c, d \in Callers :
    /\ Answered(c) /\ call[c].op = "GetEndpoint" /\ call[c].status = 201
    /\ call[c].err = StatusError(201)
    /\ Answered(d) /\ call[d].op = "CreateEvent" /\ call[d].status = 300
    /\ call[d].err = Nil

\* C2: CreateEndpoint and UpdateEndpoint return a status-code error and no
\* result exactly when the status is above 400; for a status up to 400, 400
\* included, they return the decoded result, or a decode error and no result.
C2_Threshold400 ==
  \A c \in Callers :
    Answered(c) /\ call[c].op \in {"CreateEndpoint", "UpdateEndpoint"} =>
      IF call[c].status > 400
      THEN call[c].err = StatusError(call[c].status) /\ call[c].result = Nil
      ELSE \/ call[c].err = Nil /\ call[c].result = "response"
           \/ call[c].err = "decode" /\ call[c].result = Nil

C2_Witness ==
  \E c, d \in Callers :
    /\ Answered(c) /\ call[c].op = "CreateEndpoint" /\ call[c].status = 400
    /\ call[c].result = "response" /\ call[c].err = Nil
    /\ Answered(d) /\ call[d].op = "UpdateEndpoint" /\ call[d].status = 401
    /\ call[d].err = StatusError(401) /\ call[d].result = Nil

\* C3: whatever Headers map the caller supplies, the request CreateEvent
\* sends carries Authorization = "Bearer <key>" and Content-Type =
\* "application/json" and no caller-supplied value for either header name,
\* the names compared without regard to letter case.
C3_ForcedHeaders ==
  \A c \in Callers :
    call[c].op = "CreateEvent" /\ call[c].wire # <<>> =>
      /\ WireValues(call[c].wire[1], "Authorization") = <<Bearer(we.key)>>
      /\ WireValues(call[c].wire[1], "Content-Type") = <<"application/json">>

\* C4: concurrent calls on one client never race: no call's next access to
\* a location conflicts with another call's, and no call is cut short by
\* the runtime.
C4_NoDataRace == ~crashed /\ \A c \in Callers : ~Racing(c)

\* C5: CreateEvent with a nil Webhook returns "webhook data undefined" and
\* sends no request.
C5_NilWebhook ==
  \A c \in Callers :
    call[c].op = "CreateEvent" /\ call[c].wh = Nil =>
      /\ call[c].pc = "done"
      /\ call[c].err = "webhook data undefined"
      /\ call[c].wire = <<>>
      /\ call[c].status = 0

C5_Witness ==
  \E c \in Callers :
    /\ call[c].op = "CreateEvent" /\ call[c].wh = Nil /\ call[c].pc = "done"
    /\ call[c].err = "webhook data undefined" /\ call[c].wire = <<>>

\* C6: a call sends at most one request, and exactly one once its request
\* was built and handed to the transport, whatever the response status.
C6_OneRequest ==
  \A c \in Callers :
    /\ Len(call[c].wire) <= 1
    /\ call[c].pc = "responded" => Len(call[c].wire) = 1
    /\ call[c].pc = "done" /\ call[c].err \notin {"webhook data undefined", "marshal", "request"}
       => Len(call[c].wire) = 1

\* The errors an answered call can return for its status when the close of
\* the body plays no part.
OutcomeOfStatus(c) ==
  CASE call[c].op = "CreateEvent" ->
         call[c].err = (IF call[c].status >= 400
                        THEN EventStatusError(call[c].status) ELSE Nil)
    [] call[c].op \in {"GetEndpoint", "GetEndpointEventDeliveries"} ->
         IF call[c].status # 200 THEN call[c].err = StatusError(call[c].status)
         ELSE call[c].err \in {Nil, "decode"}
    [] call[c].op \in {"DeleteEndpoint", "TogglePause"} ->
         IF call[c].status >= 300 THEN call[c].err = StatusError(call[c].status)
         ELSE call[c].err \in {Nil, "decode"}
    [] OTHER ->
         IF call[c].status > 400 THEN call[c].err = StatusError(call[c].status)
         ELSE call[c].err \in {Nil, "decode"}

\* C7: a call that received a response closes its body exactly once before
\* it returns, on every exit path; a call that received none closes
\* nothing; a failed close is logged only and leaves the outcome as the
\* status and the body decide it.
C7_BodyClosedOnce ==
  \A c \in Callers :
    /\ call[c].pc # "done" => call[c].closes = 0
    /\ call[c].pc = "done" =>
         /\ call[c].closes = (IF call[c].status # 0 THEN 1 ELSE 0)
         /\ call[c].status = 0 => ~call[c].closeLogged
         /\ call[c].status # 0 => OutcomeOfStatus(c)

C7_Witness ==
  \E c, d \in Callers :
    /\ Answered(c) /\ call[c].closes = 1 /\ call[c].closeLogged
    /\ call[c].err = Nil /\ call[c].result = "endpoint"
    /\ call[d].pc = "done" /\ call[d].err = "transport" /\ call[d].closes = 0

\* C8: every request any operation sends carries exactly one Authorization
\* value, "Bearer " followed by the client's key.
C8_OneAuthorization ==
  \A c \in Callers :
    \A i \in 1..Len(call[c].wire) :
      WireValues(call[c].wire[i], "Authorization") = <<Bearer(we.key)>>

\* C9: CreateEvent, once it has a response, reads the body exactly once for
\* every status, and returns the error with the status code exactly when
\* the status is 400 or more and nil otherwise, whether the read failed or
\* not.
C9_ReadOnce ==
  \A c \in Callers :
    call[c].op = "CreateEvent" =>
      /\ call[c].pc # "done" => call[c].reads = 0
      /\ call[c].pc = "done" =>
           /\ call[c].reads = (IF call[c].status # 0 THEN 1 ELSE 0)
           /\ call[c].status >= 400 => call[c].err = EventStatusError(call[c].status)
           /\ call[c].status # 0 /\ call[c].status < 400 => call[c].err = Nil

C9_Witness ==
  \E c, d \in Callers :
    /\ Answered(c) /\ call[c].op = "CreateEvent" /\ call[c].readFailed
    /\ call[c].reads = 1 /\ call[c].status = 200 /\ call[c].err = Nil
    /\ Answered(d) /\ call[d].op = "CreateEvent" /\ call[d].readFailed
    /\ call[d].reads = 1 /\ call[d].status = 401
    /\ call[d].err = EventStatusError(401)

\* C10: CreateEvent leaves its Webhook argument as it found it: when the
\* call has returned, the caller's Headers map holds what it held when the
\* call began.
C10_ArgumentUnchanged ==
  \A c \in Callers :
    call[c].op = "CreateEvent" /\ call[c].wh \in Webhooks /\ call[c].pc = "done"
      => Headers[call[c].wh] = call[c].before

====
